---- MODULE Spec2Model ----
(***************************************************************************)
(* Model of the coupon-issuance backend (src/backend/server.js and         *)
(* src/backend/server.production.js).                                      *)
(*                                                                         *)
(* src/backend/server.js holds two revisions of the server back to back:   *)
(* lines 1-550 (Twilio only, Indian numbering plan; "legacy" below) and    *)
(* lines 551-1592 (Twilio + Odoo, Omani numbering plan; "odoo" below).     *)
(* src/backend/server.production.js is the third variant ("production").   *)
(* Which one runs, and whether Twilio is configured, is fixed at start-up. *)
(*                                                                         *)
(* Node runs one handler at a time: the code between two awaits is one     *)
(* atomic step.  Every action below is one such step of one handler.       *)
(* Strings that the code inspects character by character (phones, codes)   *)
(* are sequences of one-character strings.                                 *)
(***************************************************************************)
EXTENDS Integers, Sequences, FiniteSets, TLC

\* ------------------------------------------------------------------ bounds
\* number of HTTP requests served in one run
MaxReq == 2
\* first and last value that Date.now() returns
Now0 == 35
MaxNow == 36
MaxPrefix == 2
MaxRows == 3

\* ------------------------------------------------------------ JS constants
NULL == "null"
UNDEFINED == "undefined"

Servers == {"legacy", "odoo", "production"}

Req == 1..MaxReq

\* ------------------------------------------------------------- JS strings
DecimalDigits == {"0", "1", "2", "3", "4", "5", "6", "7", "8", "9"}

\* s.startsWith(prefix)
startsWith(s, prefix) ==
    /\ Len(s) >= Len(prefix)
    /\ SubSeq(s, 1, Len(prefix)) = prefix

\* s.substring(from) with 0-based from
substringFrom(s, from) == SubSeq(s, from + 1, Len(s))

\* s.substring(from, to) with 0-based from, exclusive to, both clamped
substring(s, from, to) ==
    SubSeq(s, (IF from > Len(s) THEN Len(s) ELSE from) + 1,
              IF to > Len(s) THEN Len(s) ELSE to)

\* s.replace(/\D/g, '')
RECURSIVE stripNonDigits(_)
stripNonDigits(s) ==
    IF s = <<>> THEN <<>>
    ELSE (IF Head(s) \in DecimalDigits THEN <<Head(s)>> ELSE <<>>)
         \o stripNonDigits(Tail(s))

\* Number.prototype.toString(36): lower-case digits
LowerDigits36 ==
    <<"0", "1", "2", "3", "4", "5", "6", "7", "8", "9", "a", "b", "c", "d",
      "e", "f", "g", "h", "i", "j", "k", "l", "m", "n", "o", "p", "q", "r",
      "s", "t", "u", "v", "w", "x", "y", "z">>
UpperDigits36 ==
    <<"0", "1", "2", "3", "4", "5", "6", "7", "8", "9", "A", "B", "C", "D",
      "E", "F", "G", "H", "I", "J", "K", "L", "M", "N", "O", "P", "Q", "R",
      "S", "T", "U", "V", "W", "X", "Y", "Z">>

RECURSIVE toString36(_)
toString36(n) ==
    IF n < 36 THEN <<LowerDigits36[n + 1]>>
    ELSE toString36(n \div 36) \o <<LowerDigits36[(n % 36) + 1]>>

\* String.prototype.toUpperCase on the characters that occur here
upperChar(c) ==
    IF \E i \in 1..36 : LowerDigits36[i] = c
    THEN UpperDigits36[CHOOSE i \in 1..36 : LowerDigits36[i] = c]
    ELSE c
toUpperCase(s) == [i \in 1..Len(s) |-> upperChar(s[i])]

\* values of Math.random().toString(36): "0.a1zq7" and "0.k"
RandomStrings ==
    { <<"0", ".", "a", "1", "z", "q", "7">>, <<"0", ".", "k">> }

\* ------------------------------------------------------- coupon code, phone
\* generateCouponCode with Date.now() = t and Math.random().toString(36) = r
generateCouponCode(t, r) ==
    LET prefix == <<"E", "X", "P", "O">>
        timestamp == toUpperCase(toString36(t))
        random == toUpperCase(substring(r, 2, 6))
    IN prefix \o <<"-">> \o timestamp \o <<"-">> \o random

normalizeOmanMobile(phone) ==
    LET c0 == stripNonDigits(phone)
        c1 == IF startsWith(c0, <<"0", "0">>) THEN substringFrom(c0, 2) ELSE c0
        c2 == IF startsWith(c1, <<"9", "6", "8">>) THEN substringFrom(c1, 3) ELSE c1
        c3 == IF startsWith(c2, <<"0">>) THEN substringFrom(c2, 1) ELSE c2
    IN c3

\* /^[79]\d{7}$/
isValidOmanMobile(localNumber) ==
    /\ Len(localNumber) = 8
    /\ localNumber[1] \in {"7", "9"}
    /\ \A i \in 2..8 : localNumber[i] \in DecimalDigits


\* formatPhoneNumber: Omani form in the odoo revision, Indian form elsewhere
formatPhoneNumberOman(phone) == <<"9", "6", "8">> \o normalizeOmanMobile(phone)

formatPhoneNumberIndia(phone) ==
    LET c0 == stripNonDigits(phone)
        c1 == IF startsWith(c0, <<"0">>) THEN substringFrom(c0, 1) ELSE c0
    IN IF startsWith(c1, <<"9", "1">>) THEN c1 ELSE <<"9", "1">> \o c1

formatPhoneNumber(srv, phone) ==
    IF srv = "odoo" THEN formatPhoneNumberOman(phone)
    ELSE formatPhoneNumberIndia(phone)

\* ------------------------------------------------------------------ inputs
\* bodies of POST /api/coupons: a complete one, one with each field missing
\* or empty (JS: falsy), and one whose phone is not an Omani mobile number.
\* Customer names and phones are character sequences, <<>> is the empty or
\* missing one; branches are compared as a whole and stay atomic.
NameAli == <<"A", "l", "i">>
PhoneOk == <<"+", "9", "6", "8", " ", "9", "1", "2", "3", "4", "5", "6", "7">>
PhoneBad == <<"5", "1", "2", "3", "4", "5", "6", "7">>

CouponBodies ==
    { [customer_name |-> NameAli, mobile_number |-> PhoneOk, branch |-> "Sohar"],
      [customer_name |-> <<>>, mobile_number |-> PhoneOk, branch |-> "Sohar"],
      [customer_name |-> NameAli, mobile_number |-> <<>>, branch |-> "Sohar"],
      [customer_name |-> NameAli, mobile_number |-> PhoneOk, branch |-> ""],
      [customer_name |-> NameAli, mobile_number |-> PhoneBad, branch |-> "Sohar"] }

NoBody == [customer_name |-> <<>>, mobile_number |-> <<>>, branch |-> ""]

\* what twilioClient.messages.create resolves or rejects with
TwilioOutcomes ==
    { [ok |-> TRUE, sid |-> "SM1", message |-> UNDEFINED],
      [ok |-> FALSE, sid |-> UNDEFINED, message |-> "Twilio 21211"] }

\* !x for an atomic text value (a branch, an error message)
falsy(x) == x \in {"", UNDEFINED, NULL}

\* x || null
orNull(x) == IF falsy(x) THEN NULL ELSE x

\* ------------------------------------------------------------------- state
VARIABLES
    server,        \* which of the three server programs is running
    twilioClient,  \* TRUE when TWILIO_ACCOUNT_SID and TWILIO_AUTH_TOKEN are set
    now,           \* the last value that Date.now() returned
    users,         \* table users: sequence of rows, row i has id i
    tokens,        \* payloads of the JWTs issued so far
    coupons,       \* table coupons: sequence of rows, row i has id i
    reqs,          \* the HTTP requests: handler position and response
    sends,         \* log of the calls of sendWhatsAppMessage
    odooConfigured,\* TRUE when ODOO_DATABASE, ODOO_USERNAME, ODOO_API_KEY are set
    odooUid,       \* the cached Odoo user id, 0 for null
    odooPartners,  \* number of res.partner records created in Odoo
    calc           \* a phone number given to the phone helpers, and what
                   \* they returned

erp == <<odooConfigured, odooUid, odooPartners>>

vars ==
    <<server, twilioClient, now, users, tokens, coupons, reqs, sends, erp, calc>>

\* a delivery result before any attempt, a response before it is sent
NoResult == [success |-> FALSE, error |-> UNDEFINED]
NoCoupon == [id |-> 0, coupon_code |-> <<>>, whatsapp_sent |-> FALSE]
NoData == [total |-> 0, pages |-> 0, rows |-> <<>>, sent |-> 0, failed |-> 0,
           byBranch |-> <<>>, byStaff |-> <<>>]
NoContact == [odoo_partner_id |-> 0, name |-> <<>>, phone |-> <<>>, city |-> <<>>]
NoResp == [status |-> 0, error |-> NULL, coupon |-> NoCoupon,
           whatsapp |-> NoResult, data |-> NoData,
           contact |-> NoContact, whatsapp_sent |-> FALSE]

\* id 0, phone <<>> and code <<>> stand for "not set"
\* a query string without parameters: an absent parameter is -1 (numbers),
\* "" (branch) or <<>> (search)
NoQuery ==
    [page |-> -1, limit |-> -1, branch |-> "", staff_id |-> -1, date |-> -1,
     search |-> <<>>, date_from |-> -1, date_to |-> -1]

\* threw names the store write that threw in the handler, if any;
\* contact, partner, template, composer and calls belong to POST /api/contacts
NoContactBody == [name |-> <<>>, phone |-> <<>>, city |-> <<>>, branch_id |-> 0]
IdleReq == [pc |-> "idle", kind |-> "none", user |-> 0, body |-> NoBody,
            id |-> 0, to |-> <<>>, code |-> <<>>, threw |-> "none",
            contact |-> NoContactBody, partner |-> 0, template |-> 0,
            composer |-> 0, note |-> 0, calls |-> <<>>, query |-> NoQuery,
            resp |-> NoResp]

\* passwords: 'admin123', a new one of 8 characters and one of 3
PwAdmin == <<"a", "d", "m", "i", "n", "1", "2", "3">>
PwNew == <<"p", "a", "s", "s", "1", "2", "3", "4">>
PwShort == <<"a", "b", "c">>
Passwords == {PwAdmin, PwNew, PwShort}

\* bcrypt.hashSync(password, 10) and bcrypt.compareSync(password, hash)
hashSync(password) == [bcrypt |-> password]
compareSync(password, hash) == hash = hashSync(password)

\* the row inserted at start-up when no admin exists
DefaultAdmin ==
    [id |-> 1, username |-> "admin", password |-> hashSync(PwAdmin),
     name |-> "Administrator", role |-> "admin", active |-> 1]

\* a start-up that inserts the default admin without looking for one
BootstrapAlways(tbl) == Append(tbl, [DefaultAdmin EXCEPT !.id = Len(tbl) + 1])

\* start-up: SELECT id FROM users WHERE role = 'admin', and the INSERT of the
\* default admin when that finds no row
Bootstrap(tbl) ==
    IF \E i \in 1..Len(tbl) : tbl[i].role = "admin"
    THEN tbl
    ELSE Append(tbl, [DefaultAdmin EXCEPT !.id = Len(tbl) + 1])

\* no phone number under evaluation
NoCalc == [arg |-> <<>>, n |-> 0, once |-> <<>>, twice |-> <<>>,
           checked |-> FALSE, valid |-> FALSE, accepted |-> FALSE]

Init ==
    /\ calc = NoCalc
    /\ server \in Servers
    /\ twilioClient \in BOOLEAN
    /\ now = Now0
    /\ users = Bootstrap(<<>>)
    /\ tokens = {}
    /\ coupons = <<>>
    /\ reqs = [p \in Req |-> IdleReq]
    /\ sends = <<>>
    /\ odooConfigured \in (IF server = "odoo" THEN BOOLEAN ELSE {FALSE})
    /\ odooUid = 0
    /\ odooPartners = 0

\* requests are taken up in the order of their numbers
CanStart(p) ==
    /\ reqs[p].pc = "idle"
    /\ \A q \in Req : q < p => reqs[q].pc # "idle"

\* ------------------------------------------------------ POST /api/auth/login
\* the payload signed into the token
TokenPayload(user) ==
    [id |-> user.id, username |-> user.username, name |-> user.name,
     role |-> user.role]

Usernames == {"admin", "sara", "omar"}

\* a login that is answered with a token: the row with that username is
\* active and the password matches its hash.  The other answers (400, 401)
\* change nothing.
Login ==
    /\ \E username \in Usernames, password \in Passwords :
        \E i \in 1..Len(users) :
            /\ users[i].username = username
            /\ users[i].active = 1
            /\ compareSync(password, users[i].password)
            /\ TokenPayload(users[i]) \notin tokens
            /\ tokens' = tokens \cup {TokenPayload(users[i])}
    /\ UNCHANGED <<calc, erp, server, twilioClient, now, users, coupons, reqs, sends>>

NewCouponRowSent(customer_name, mobile_number, branch, couponCode, staff_id, t) ==
    [id |-> Len(coupons) + 1,
     customer_name |-> customer_name,
     mobile_number |-> mobile_number,
     branch |-> branch,
     coupon_code |-> couponCode,
     staff_id |-> staff_id,
     whatsapp_sent |-> 1,
     whatsapp_error |-> NULL,
     created_at |-> t]

\* ------------------------------------------------------------------- store
\* the row created by INSERT INTO coupons (...) VALUES (...); whatsapp_sent
\* and whatsapp_error take their column defaults, id is the next rowid and
\* created_at the time t of the INSERT
NewCouponRow(customer_name, mobile_number, branch, couponCode, staff_id, t) ==
    [id |-> Len(coupons) + 1,
     customer_name |-> customer_name,
     mobile_number |-> mobile_number,
     branch |-> branch,
     coupon_code |-> couponCode,
     staff_id |-> staff_id,
     whatsapp_sent |-> 0,
     whatsapp_error |-> NULL,
     created_at |-> t]

\* a store without the UNIQUE constraint on coupon_code
UniqueViolationDropped(couponCode) == FALSE

\* coupon_code TEXT UNIQUE NOT NULL
UniqueViolation(couponCode) ==
    \E i \in 1..Len(coupons) : coupons[i].coupon_code = couponCode

\* the UPDATE without its WHERE clause
UpdateStatusEveryRow(tbl, id, sent, err) ==
    [i \in 1..Len(tbl) |->
        [tbl[i] EXCEPT !.whatsapp_sent = sent, !.whatsapp_error = err]]

\* UPDATE coupons SET whatsapp_sent = ?, whatsapp_error = ? WHERE id = ?
UpdateStatus(tbl, id, sent, err) ==
    [i \in 1..Len(tbl) |->
        IF tbl[i].id = id
        THEN [tbl[i] EXCEPT !.whatsapp_sent = sent, !.whatsapp_error = err]
        ELSE tbl[i]]

\* SELECT * FROM coupons WHERE id = ?
CouponExists(id) == \E i \in 1..Len(coupons) : coupons[i].id = id

CouponById(id) == coupons[CHOOSE i \in 1..Len(coupons) : coupons[i].id = id]

\* ------------------------------------------------------- sendWhatsAppMessage
\* result of sendWhatsAppMessage when Twilio is not configured
NotConfiguredResult(srv) ==
    IF srv = "production"
    THEN [success |-> TRUE, error |-> UNDEFINED]
    ELSE [success |-> FALSE, error |-> "Twilio not configured"]

TwilioResultNoText(o) == [success |-> o.ok, error |-> UNDEFINED]

\* result of sendWhatsAppMessage once twilioClient.messages.create has
\* resolved (o.ok) or rejected (error.message = o.message)
TwilioResult(o) ==
    IF o.ok THEN [success |-> TRUE, error |-> UNDEFINED]
    ELSE [success |-> FALSE, error |-> o.message]

\* one call of sendWhatsAppMessage(to, couponCode) made by request p;
\* provider tells whether twilioClient.messages.create was called, and
\* provider_to is the number it was given
SendEntry(p, to, couponCode) ==
    [req |-> p, to |-> to, code |-> couponCode,
     provider |-> twilioClient,
     provider_to |-> IF twilioClient THEN formatPhoneNumber(server, to)
                     ELSE <<>>]

\* --------------------------------------------------------- POST /api/coupons
\* the values Date.now() can return next: the clock does not run backwards
Clock == now..MaxNow

\* the checks made before a code is generated
ValidateCoupon(srv, customer_name, mobile_number, branch) ==
    IF customer_name = <<>> \/ mobile_number = <<>> \/ falsy(branch)
    THEN "required"
    ELSE IF srv = "odoo" /\ ~isValidOmanMobile(normalizeOmanMobile(mobile_number))
    THEN "invalid mobile"
    ELSE IF srv = "legacy" /\ Len(stripNonDigits(mobile_number)) < 10
    THEN "invalid mobile"
    ELSE "ok"

CreatedResp(id, couponCode, result) ==
    [status |-> 201, error |-> NULL,
     coupon |-> [id |-> id, coupon_code |-> couponCode,
                 whatsapp_sent |-> result.success],
     whatsapp |-> result, data |-> NoData,
     contact |-> NoContact, whatsapp_sent |-> FALSE]

\* an error answer sent without res.status(...)
ErrorRespNoStatus(status, text) ==
    [status |-> 200, error |-> text, coupon |-> NoCoupon,
     whatsapp |-> NoResult, data |-> NoData,
     contact |-> NoContact, whatsapp_sent |-> FALSE]

ErrorResp(status, text) ==
    [status |-> status, error |-> text, coupon |-> NoCoupon,
     whatsapp |-> NoResult, data |-> NoData,
     contact |-> NoContact, whatsapp_sent |-> FALSE]

\* a status write that never marks a row sent
StatusSentNever(result) == 0

\* the status written after a delivery attempt
StatusSent(result) == IF result.success THEN 1 ELSE 0
\* a status write that forgets the error text
StatusErrorDropped(result) == NULL

StatusError(result) == orNull(result.error)

\* the handler up to its await: validation, code generation, INSERT and the
\* call of sendWhatsAppMessage.  Without Twilio sendWhatsAppMessage returns
\* at once and the handler runs to its end in the same step.
\* fault names the store write that throws, "none" when the store is healthy.
\* t is the value of Date.now(), r that of Math.random().toString(36).
PostCouponsBody(p, user, body, t, r, fault) ==
    LET customer_name == body.customer_name
        mobile_number == body.mobile_number
        branch == body.branch
        check == ValidateCoupon(server, customer_name, mobile_number, branch)
        couponCode == generateCouponCode(t, r)
        row == NewCouponRow(customer_name, mobile_number, branch, couponCode,
                            user.id, t)
        inserted == Append(coupons, row)
        result == NotConfiguredResult(server)
        started == [reqs[p] EXCEPT !.kind = "issue", !.user = user.id,
                                   !.body = body]
    IN
    IF check # "ok"
    THEN /\ fault = "none"
         /\ t = now
         /\ reqs' = [reqs EXCEPT ![p] =
                [started EXCEPT !.pc = "done", !.resp = ErrorResp(400, check)]]
         /\ UNCHANGED <<now, coupons, sends>>
    ELSE IF UniqueViolation(couponCode) \/ fault = "insert"
    THEN \* INSERT throws, the catch block answers
         /\ now' = t
         /\ reqs' = [reqs EXCEPT ![p] =
                [started EXCEPT !.pc = "done", !.code = couponCode,
                    !.threw = "insert",
                    !.resp = ErrorResp(500, "Failed to create coupon")]]
         /\ UNCHANGED <<coupons, sends>>
    ELSE /\ now' = t
         /\ sends' = Append(sends, SendEntry(p, mobile_number, couponCode))
         /\ IF twilioClient
            THEN /\ fault = "none"
                 /\ coupons' = inserted
                 /\ reqs' = [reqs EXCEPT ![p] =
                        [started EXCEPT !.pc = "sending", !.id = row.id,
                            !.to = mobile_number, !.code = couponCode]]
            ELSE IF fault = "update"
            THEN \* UPDATE throws, the catch block answers
                 /\ coupons' = inserted
                 /\ reqs' = [reqs EXCEPT ![p] =
                        [started EXCEPT !.pc = "done", !.id = row.id,
                            !.to = mobile_number, !.code = couponCode,
                            !.threw = "update",
                            !.resp = ErrorResp(500, "Failed to create coupon")]]
            ELSE /\ coupons' = UpdateStatus(inserted, row.id,
                                    StatusSent(result), StatusError(result))
                 /\ reqs' = [reqs EXCEPT ![p] =
                        [started EXCEPT !.pc = "done", !.id = row.id,
                            !.to = mobile_number, !.code = couponCode,
                            !.resp = CreatedResp(row.id, couponCode, result)]]

PostCoupons(p) ==
    /\ CanStart(p)
    /\ \E user \in tokens, body \in CouponBodies, t \in Clock,
          r \in RandomStrings :
            PostCouponsBody(p, user, body, t, r, "none")
    /\ UNCHANGED <<calc, erp, server, twilioClient, users, tokens>>

\* the handler after its await: the Twilio call has returned, the status is
\* written and the response sent
PostCouponsResumeBody(p, o, fault) ==
    LET result == TwilioResult(o)
    IN IF fault = "update"
       THEN \* UPDATE throws, the catch block answers
            /\ reqs' = [reqs EXCEPT ![p].pc = "done", ![p].threw = "update",
                    ![p].resp = ErrorResp(500, "Failed to create coupon")]
            /\ UNCHANGED coupons
       ELSE /\ coupons' = UpdateStatus(coupons, reqs[p].id,
                                StatusSent(result), StatusError(result))
            /\ reqs' = [reqs EXCEPT ![p].pc = "done",
                    ![p].resp = CreatedResp(reqs[p].id, reqs[p].code, result)]

PostCouponsResumeInTurn(p) ==
    /\ reqs[p].pc = "sending"
    /\ reqs[p].kind = "issue"
    /\ \A q \in Req : q < p => reqs[q].pc # "sending"
    /\ \E o \in TwilioOutcomes : PostCouponsResumeBody(p, o, "none")
    /\ UNCHANGED <<calc, erp, server, twilioClient, now, users, tokens, sends>>

PostCouponsResume(p) ==
    /\ reqs[p].pc = "sending"
    /\ reqs[p].kind = "issue"
    /\ \E o \in TwilioOutcomes : PostCouponsResumeBody(p, o, "none")
    /\ UNCHANGED <<calc, erp, server, twilioClient, now, users, tokens, sends>>

\* the same two steps over a store whose write throws (database locked,
\* disk full): the INSERT, or the UPDATE of the status
StoreFaults == {"insert", "update"}

PostCouponsStoreFault(p) ==
    /\ CanStart(p)
    /\ \E user \in tokens, body \in CouponBodies, t \in Clock,
          r \in RandomStrings, fault \in StoreFaults :
            PostCouponsBody(p, user, body, t, r, fault)
    /\ UNCHANGED <<calc, erp, server, twilioClient, users, tokens>>

PostCouponsResumeStoreFault(p) ==
    /\ reqs[p].pc = "sending"
    /\ reqs[p].kind = "issue"
    /\ \E o \in TwilioOutcomes : PostCouponsResumeBody(p, o, "update")
    /\ UNCHANGED <<calc, erp, server, twilioClient, now, users, tokens, sends>>

\* ------------------------------------------------- POST /api/coupons/:id/resend
\* { success: result.success, error: result.error }
ResendResp(result) ==
    [status |-> 200, error |-> result.error, coupon |-> NoCoupon,
     whatsapp |-> result, data |-> NoData,
     contact |-> NoContact, whatsapp_sent |-> FALSE]

\* the handler up to its await: SELECT, 404 when there is no row, else the
\* call of sendWhatsAppMessage with the row's phone and code.  Without
\* Twilio the handler runs to its end in the same step.
PostResendBody(p, user, id) ==
    LET coupon == CouponById(id)
        result == NotConfiguredResult(server)
        started == [reqs[p] EXCEPT !.kind = "resend", !.user = user.id,
                                   !.id = id]
    IN
    IF ~CouponExists(id)
    THEN /\ reqs' = [reqs EXCEPT ![p] =
                [started EXCEPT !.pc = "done",
                    !.resp = ErrorResp(404, "Coupon not found")]]
         /\ UNCHANGED <<coupons, sends>>
    ELSE /\ sends' = Append(sends,
                        SendEntry(p, coupon.mobile_number, coupon.coupon_code))
         /\ IF twilioClient
            THEN /\ reqs' = [reqs EXCEPT ![p] =
                        [started EXCEPT !.pc = "sending",
                            !.to = coupon.mobile_number,
                            !.code = coupon.coupon_code]]
                 /\ UNCHANGED coupons
            ELSE /\ coupons' = UpdateStatus(coupons, id,
                                    StatusSent(result), StatusError(result))
                 /\ reqs' = [reqs EXCEPT ![p] =
                        [started EXCEPT !.pc = "done",
                            !.to = coupon.mobile_number,
                            !.code = coupon.coupon_code,
                            !.resp = ResendResp(result)]]

\* ids a client may put in the path: those of the rows and one beyond
ResendIds == 1..(Len(coupons) + 1)

PostResend(p) ==
    /\ CanStart(p)
    /\ \E user \in tokens, id \in ResendIds : PostResendBody(p, user, id)
    /\ UNCHANGED <<calc, erp, server, twilioClient, now, users, tokens>>

PostResendResumeKeepsSent(p) ==
    /\ reqs[p].pc = "sending"
    /\ reqs[p].kind = "resend"
    /\ \E o \in TwilioOutcomes :
        LET result == TwilioResult(o)
            keep == coupons[reqs[p].id].whatsapp_sent = 1
        IN /\ coupons' = IF keep THEN coupons
                         ELSE UpdateStatus(coupons, reqs[p].id,
                                StatusSent(result), StatusError(result))
           /\ reqs' = [reqs EXCEPT ![p].pc = "done",
                    ![p].resp = ResendResp(result)]
    /\ UNCHANGED <<calc, erp, server, twilioClient, now, users, tokens, sends>>

\* the handler after its await
PostResendResume(p) ==
    /\ reqs[p].pc = "sending"
    /\ reqs[p].kind = "resend"
    /\ \E o \in TwilioOutcomes :
        LET result == TwilioResult(o)
        IN /\ coupons' = UpdateStatus(coupons, reqs[p].id,
                                StatusSent(result), StatusError(result))
           /\ reqs' = [reqs EXCEPT ![p].pc = "done",
                    ![p].resp = ResendResp(result)]
    /\ UNCHANGED <<calc, erp, server, twilioClient, now, users, tokens, sends>>

\* ------------------------------------------------------------ staff routes
\* a requireAdmin that lets every caller through
IsAdminAnyone(user) == TRUE

\* requireAdmin
IsAdmin(user) == user.role = "admin"

Forbidden(p, kind, user) ==
    reqs' = [reqs EXCEPT ![p] =
        [reqs[p] EXCEPT !.pc = "done", !.kind = kind, !.user = user.id,
            !.resp = ErrorResp(403, IF server = "production"
                                    THEN "Admin required"
                                    ELSE "Admin access required")]]

\* the routes behind authenticateToken in each server program
Routes(srv) ==
    {"issue", "list", "export", "resend", "stats", "staff list", "staff",
     "toggle", "me", "branches"}
    \cup (IF srv # "production" THEN {"password"} ELSE {})
    \cup (IF srv = "odoo"
          THEN {"own password", "contact", "contacts list", "contacts export"}
          ELSE {})

\* the routes behind requireAdmin
AdminRoutes == {"staff list", "staff", "toggle", "password", "export",
                "contacts export"}

\* an Authorization header without a token, or with one that jwt.verify
\* refuses (bad signature, expired)
BadBearers == {"absent", "invalid"}

\* the answer of authenticateToken to such a header
Unauthorized(srv, bearer) ==
    IF bearer = "absent"
    THEN ErrorResp(401, IF srv = "production" THEN "Token required"
                        ELSE "Access token required")
    ELSE ErrorResp(403, IF srv = "production" THEN "Invalid token"
                        ELSE "Invalid or expired token")

\* authenticateToken answers, the route's handler is not called; the
\* middleware is the same function in front of every route
RejectUnauthenticated(p) ==
    /\ CanStart(p)
    /\ \E route \in Routes(server), bearer \in BadBearers :
        reqs' = [reqs EXCEPT ![p] =
            [reqs[p] EXCEPT !.pc = "done", !.kind = "rejected",
                !.resp = Unauthorized(server, bearer)]]
    /\ UNCHANGED <<calc, erp, server, twilioClient, now, users, tokens, coupons, sends>>

\* GET /api/staff: the rows of users, ORDER BY created_at DESC (the order of
\* rows of one second is the store's)
GetStaff(p) ==
    /\ CanStart(p)
    /\ \E user \in tokens :
        IF ~IsAdmin(user)
        THEN Forbidden(p, "staff list", user)
        ELSE \E o \in [1..Len(users) -> 1..Len(users)] :
                /\ \A i, j \in 1..Len(users) : i # j => o[i] # o[j]
                /\ reqs' = [reqs EXCEPT ![p] =
                    [reqs[p] EXCEPT !.pc = "done", !.kind = "staff list",
                        !.user = user.id,
                        !.resp = [NoResp EXCEPT !.status = 200,
                            !.data = [NoData EXCEPT !.total = Len(users),
                                                    !.rows = o]]]]
    /\ UNCHANGED <<calc, erp, server, twilioClient, now, users, tokens, coupons, sends>>

\* the process is stopped and started again: the tables stay, start-up runs,
\* the cached Odoo uid is lost and the requests in flight are never answered
Restart ==
    /\ users' = Bootstrap(users)
    /\ odooUid' = 0
    /\ reqs' = [p \in Req |->
            IF reqs[p].pc \in {"idle", "done", "aborted"} THEN reqs[p]
            ELSE [reqs[p] EXCEPT !.pc = "aborted"]]
    /\ UNCHANGED <<calc, odooConfigured, odooPartners, server, twilioClient, now,
                   tokens, coupons, sends>>

\* bodies of POST /api/staff
StaffBodies ==
    { [username |-> "sara", password |-> PwNew, name |-> "Sara", role |-> "staff"],
      [username |-> "omar", password |-> PwNew, name |-> "Omar", role |-> "admin"],
      [username |-> "sara", password |-> PwShort, name |-> "Sara", role |-> "staff"],
      [username |-> "admin", password |-> PwNew, name |-> "Admin", role |-> "staff"],
      [username |-> "", password |-> PwNew, name |-> "Sara", role |-> "staff"] }

\* role TEXT DEFAULT 'staff' CHECK(role IN ('admin', 'staff'))
Roles == {"admin", "staff"}

UsernameExists(username) ==
    \E i \in 1..Len(users) : users[i].username = username

NewUserRow(username, password, name, role) ==
    [id |-> Len(users) + 1, username |-> username,
     password |-> hashSync(password), name |-> name, role |-> role,
     active |-> 1]

\* POST /api/staff
PostStaff(p) ==
    /\ CanStart(p)
    /\ \E user \in tokens, body \in StaffBodies :
        LET started == [reqs[p] EXCEPT !.pc = "done", !.kind = "staff",
                                       !.user = user.id]
            answer(r) == reqs' = [reqs EXCEPT ![p] = [started EXCEPT !.resp = r]]
        IN
        IF ~IsAdmin(user)
        THEN Forbidden(p, "staff", user) /\ UNCHANGED users
        ELSE IF falsy(body.username) \/ body.password = <<>> \/ falsy(body.name)
        THEN answer(ErrorResp(400, "required")) /\ UNCHANGED users
        ELSE IF server # "production" /\ Len(body.password) < 4
        THEN answer(ErrorResp(400, "Password must be at least 4 characters"))
             /\ UNCHANGED users
        ELSE IF UsernameExists(body.username)
        THEN answer(ErrorResp(400, "Username already exists"))
             /\ UNCHANGED users
        ELSE IF body.role \notin Roles
        THEN answer(ErrorResp(500, "Failed to create staff member"))
             /\ UNCHANGED users
        ELSE /\ users' = Append(users, NewUserRow(body.username, body.password,
                                                  body.name, body.role))
             /\ answer([NoResp EXCEPT !.status = 201])
    /\ UNCHANGED <<calc, erp, server, twilioClient, now, tokens, coupons, sends>>

\* UPDATE users SET active = ? WHERE id = ?
SetActive(id, active) ==
    [i \in 1..Len(users) |->
        IF users[i].id = id THEN [users[i] EXCEPT !.active = active]
        ELSE users[i]]

\* UPDATE users SET password = ? WHERE id = ?
SetPassword(id, hash) ==
    [i \in 1..Len(users) |->
        IF users[i].id = id THEN [users[i] EXCEPT !.password = hash]
        ELSE users[i]]

\* ids a client may put in the path: those of the rows and one beyond
StaffIds == 1..(Len(users) + 1)

\* PATCH /api/staff/:id/toggle
PatchStaffToggle(p) ==
    /\ CanStart(p)
    /\ \E user \in tokens, id \in StaffIds :
        LET started == [reqs[p] EXCEPT !.pc = "done", !.kind = "toggle",
                                       !.user = user.id, !.id = id]
            answer(r) == reqs' = [reqs EXCEPT ![p] = [started EXCEPT !.resp = r]]
        IN
        IF ~IsAdmin(user)
        THEN Forbidden(p, "toggle", user) /\ UNCHANGED users
        ELSE IF id > Len(users)
        THEN answer(ErrorResp(404, "Staff not found")) /\ UNCHANGED users
        ELSE IF server # "production" /\ users[id].role = "admin"
                /\ users[id].id = user.id
        THEN answer(ErrorResp(400, "Cannot deactivate your own admin account"))
             /\ UNCHANGED users
        ELSE /\ users' = SetActive(id, IF users[id].active = 1 THEN 0 ELSE 1)
             /\ answer([NoResp EXCEPT !.status = 200])
    /\ UNCHANGED <<calc, erp, server, twilioClient, now, tokens, coupons, sends>>

\* PATCH /api/staff/:id/password (not in server.production.js)
PatchStaffPassword(p) ==
    /\ server # "production"
    /\ CanStart(p)
    /\ \E user \in tokens, id \in StaffIds, password \in {PwNew, PwShort} :
        LET started == [reqs[p] EXCEPT !.pc = "done", !.kind = "password",
                                       !.user = user.id, !.id = id]
            answer(r) == reqs' = [reqs EXCEPT ![p] = [started EXCEPT !.resp = r]]
        IN
        IF ~IsAdmin(user)
        THEN Forbidden(p, "password", user) /\ UNCHANGED users
        ELSE IF Len(password) < 4
        THEN answer(ErrorResp(400, "Password must be at least 4 characters"))
             /\ UNCHANGED users
        ELSE IF id > Len(users)
        THEN answer(ErrorResp(404, "Staff not found")) /\ UNCHANGED users
        ELSE /\ users' = SetPassword(id, hashSync(password))
             /\ answer([NoResp EXCEPT !.status = 200])
    /\ UNCHANGED <<calc, erp, server, twilioClient, now, tokens, coupons, sends>>

\* PATCH /api/auth/password (second revision of server.js only)
PatchAuthPassword(p) ==
    /\ server = "odoo"
    /\ CanStart(p)
    /\ \E user \in tokens, current_password \in {PwAdmin, PwNew},
          new_password \in {PwNew, PwShort} :
        LET started == [reqs[p] EXCEPT !.pc = "done", !.kind = "own password",
                                       !.user = user.id, !.id = user.id]
            answer(r) == reqs' = [reqs EXCEPT ![p] = [started EXCEPT !.resp = r]]
        IN
        IF Len(new_password) < 4
        THEN answer(ErrorResp(400, "Password must be at least 4 characters"))
             /\ UNCHANGED users
        ELSE IF user.id > Len(users) \/ users[user.id].active = 0
        THEN answer(ErrorResp(403, "Account inactive")) /\ UNCHANGED users
        ELSE IF ~compareSync(current_password, users[user.id].password)
        THEN answer(ErrorResp(400, "Current password incorrect"))
             /\ UNCHANGED users
        ELSE /\ users' = SetPassword(user.id, hashSync(new_password))
             /\ answer([NoResp EXCEPT !.status = 200])
    /\ UNCHANGED <<calc, erp, server, twilioClient, now, tokens, coupons, sends>>

\* ------------------------------------------------------------- read routes
\* SQLite LIKE: % matches any run of characters, _ any one character, letters
\* match without regard to case
lowerChar(c) ==
    IF \E i \in 1..36 : UpperDigits36[i] = c
    THEN LowerDigits36[CHOOSE i \in 1..36 : UpperDigits36[i] = c]
    ELSE c

RECURSIVE like(_, _)
like(str, pattern) ==
    IF pattern = <<>> THEN str = <<>>
    ELSE IF Head(pattern) = "%"
    THEN like(str, Tail(pattern)) \/ (str # <<>> /\ like(Tail(str), pattern))
    ELSE /\ str # <<>>
         /\ Head(pattern) = "_" \/ lowerChar(Head(pattern)) = lowerChar(Head(str))
         /\ like(Tail(str), Tail(pattern))

\* DATE(c.created_at): the day of a time in milliseconds
MsPerDay == 86400000
DateOf(t) == t \div MsPerDay

\* query strings of GET /api/coupons, /api/coupons/export and /api/stats;
\* an absent parameter is -1 (numbers), "" (branch) or <<>> (search)
DefaultPage == 1
DefaultLimit == 50

ListQueries ==
    { NoQuery,
      [NoQuery EXCEPT !.branch = "Sohar", !.search = <<"a", "l">>,
                      !.page = 2, !.limit = 1],
      [NoQuery EXCEPT !.page = 2, !.limit = 2],
      [NoQuery EXCEPT !.staff_id = 2, !.date = 0] }

ExportQueries ==
    { NoQuery,
      [NoQuery EXCEPT !.branch = "Sohar", !.search = <<"a", "l">>,
                      !.page = 2, !.limit = 1],
      [NoQuery EXCEPT !.branch = "Sohar", !.date_from = 0, !.date_to = 0],
      [NoQuery EXCEPT !.staff_id = 2, !.date_from = 1] }

StatsQueries == { NoQuery, [NoQuery EXCEPT !.date = 0] }

\* a WHERE clause that joins its conditions with OR
ListWhereAny(srv, q, c) ==
    \/ ~falsy(q.branch) /\ c.branch = q.branch
    \/ q.staff_id # -1 /\ c.staff_id = q.staff_id
    \/ q.date # -1 /\ DateOf(c.created_at) = q.date
    \/ q.search # <<>> /\ like(c.customer_name, <<"%">> \o q.search \o <<"%">>)

\* the WHERE clause of GET /api/coupons; server.production.js has no
\* staff_id filter
ListWhere(srv, q, c) ==
    /\ falsy(q.branch) \/ c.branch = q.branch
    /\ srv = "production" \/ q.staff_id = -1 \/ c.staff_id = q.staff_id
    /\ q.date = -1 \/ DateOf(c.created_at) = q.date
    /\ q.search = <<>>
        \/ LET searchTerm == <<"%">> \o q.search \o <<"%">>
           IN \/ like(c.customer_name, searchTerm)
              \/ like(c.mobile_number, searchTerm)
              \/ like(c.coupon_code, searchTerm)

\* the WHERE clause of GET /api/coupons/export; server.production.js
\* exports every row
ExportWhere(srv, q, c) ==
    \/ srv = "production"
    \/ /\ falsy(q.branch) \/ c.branch = q.branch
       /\ q.staff_id = -1 \/ c.staff_id = q.staff_id
       /\ q.date_from = -1 \/ DateOf(c.created_at) >= q.date_from
       /\ q.date_to = -1 \/ DateOf(c.created_at) <= q.date_to

\* the WHERE clause of GET /api/stats
StatsWhereAnyDay(q, c) == TRUE

StatsWhere(q, c) == q.date = -1 \/ DateOf(c.created_at) = q.date

\* JOIN users u ON c.staff_id = u.id
Joined(c) == \E i \in 1..Len(users) : users[i].id = c.staff_id

\* ORDER BY c.created_at DESC over the rows with the ids in S: every order
\* that is descending in created_at (rows of one instant come in any order)
OrderedByCreatedDesc(S) ==
    { o \in [1..Cardinality(S) -> S] :
        /\ \A i, j \in 1..Cardinality(S) : i # j => o[i] # o[j]
        /\ \A i, j \in 1..Cardinality(S) :
            i < j => coupons[o[i]].created_at >= coupons[o[j]].created_at }

\* Math.ceil(a / b) for a >= 0, b > 0
Ceil(a, b) == (a + b - 1) \div b

LimitOffsetNone(o, limit, offset) ==
    SubSeq(o, 1, IF limit < Len(o) THEN limit ELSE Len(o))

\* LIMIT limit OFFSET offset
LimitOffset(o, limit, offset) ==
    SubSeq(o, offset + 1,
           IF offset + limit < Len(o) THEN offset + limit ELSE Len(o))

Answer(p, kind, user, q, resp) ==
    reqs' = [reqs EXCEPT ![p] =
        [reqs[p] EXCEPT !.pc = "done", !.kind = kind, !.user = user.id,
            !.query = q, !.resp = resp]]

\* GET /api/coupons
GetCoupons(p) ==
    /\ CanStart(p)
    /\ \E user \in tokens, q \in ListQueries :
        LET page == IF q.page = -1 THEN DefaultPage ELSE q.page
            limit == IF q.limit = -1 THEN DefaultLimit ELSE q.limit
            offset == (page - 1) * limit
            counted == {i \in 1..Len(coupons) : ListWhere(server, q, coupons[i])}
            listed == {i \in counted : Joined(coupons[i])}
        IN \E o \in OrderedByCreatedDesc(listed) :
            Answer(p, "list", user, q,
                [NoResp EXCEPT !.status = 200,
                    !.data = [NoData EXCEPT
                        !.total = Cardinality(counted),
                        !.pages = Ceil(Cardinality(counted), limit),
                        !.rows = LimitOffset(o, limit, offset)]])
    /\ UNCHANGED <<calc, erp, server, twilioClient, now, users, tokens, coupons, sends>>

\* GET /api/coupons/export
GetCouponsExport(p) ==
    /\ CanStart(p)
    /\ \E user \in tokens, q \in ExportQueries :
        IF ~IsAdmin(user)
        THEN Forbidden(p, "export", user)
        ELSE LET matched == {i \in 1..Len(coupons) :
                                /\ ExportWhere(server, q, coupons[i])
                                /\ Joined(coupons[i])}
             IN \E o \in OrderedByCreatedDesc(matched) :
                    Answer(p, "export", user, q,
                        [NoResp EXCEPT !.status = 200,
                            !.data = [NoData EXCEPT !.rows = o]])
    /\ UNCHANGED <<calc, erp, server, twilioClient, now, users, tokens, coupons, sends>>

\* GROUP BY key ... ORDER BY count DESC: the groups as <<key, count>>, in
\* every order that is descending in count
GroupsByCountDesc(S, key) ==
    LET keys == {key[i] : i \in S}
        count(k) == Cardinality({i \in S : key[i] = k})
    IN { g \in [1..Cardinality(keys) -> {<<k, count(k)>> : k \in keys}] :
            /\ \A i, j \in 1..Cardinality(keys) : i # j => g[i] # g[j]
            /\ \A i, j \in 1..Cardinality(keys) : i < j => g[i][2] >= g[j][2] }

\* GET /api/stats over the local store (first revision of server.js and
\* server.production.js)
GetStats(p) ==
    /\ server # "odoo"
    /\ CanStart(p)
    /\ \E user \in tokens, q \in StatsQueries :
        LET matched == {i \in 1..Len(coupons) : StatsWhere(q, coupons[i])}
            totalCoupons == Cardinality(matched)
            whatsappSent ==
                Cardinality({i \in matched : coupons[i].whatsapp_sent = 1})
            branchOf == [i \in 1..Len(coupons) |-> coupons[i].branch]
            staffOf == [i \in 1..Len(coupons) |-> coupons[i].staff_id]
        IN \E byBranch \in GroupsByCountDesc(matched, branchOf),
              byStaff \in GroupsByCountDesc(
                            {i \in matched : Joined(coupons[i])}, staffOf) :
            Answer(p, "stats", user, q,
                [NoResp EXCEPT !.status = 200,
                    !.data = [NoData EXCEPT
                        !.total = totalCoupons,
                        !.sent = whatsappSent,
                        !.failed = totalCoupons - whatsappSent,
                        !.byBranch = byBranch,
                        !.byStaff = byStaff]])
    /\ UNCHANGED <<calc, erp, server, twilioClient, now, users, tokens, coupons, sends>>

\* -------------------------------------------------------- POST /api/contacts
\* String.prototype.trim
RECURSIVE trimStart(_)
trimStart(str) ==
    IF str # <<>> /\ Head(str) = " " THEN trimStart(Tail(str)) ELSE str

RECURSIVE trimEnd(_)
trimEnd(str) ==
    IF str # <<>> /\ str[Len(str)] = " "
    THEN trimEnd(SubSeq(str, 1, Len(str) - 1))
    ELSE str

trim(str) == trimEnd(trimStart(str))

\* bodies of POST /api/contacts: a complete one whose name and city carry
\* blanks, one with a blank name, one without city, one whose phone is not
\* an Omani mobile number; <<>> is the missing or empty text
CityNizwa == <<"N", "i", "z", "w", "a", " ">>

ContactBodies ==
    { [name |-> <<" ">> \o NameAli, phone |-> PhoneOk, city |-> CityNizwa,
       branch_id |-> 3],
      [name |-> <<" ">>, phone |-> PhoneOk, city |-> CityNizwa, branch_id |-> 0],
      [name |-> NameAli, phone |-> PhoneOk, city |-> <<>>, branch_id |-> 0],
      [name |-> NameAli, phone |-> PhoneBad, city |-> CityNizwa, branch_id |-> 0] }

\* what one JSON-RPC call to Odoo comes back with: axios rejects (thrown is
\* error.message), or the answer carries error (its data.message, "" when it
\* has none) or result
RpcThrown == [thrown |-> "connect ECONNREFUSED", error |-> NULL, result |-> 0]
RpcError == [thrown |-> NULL, error |-> "Access Denied", result |-> 0]
RpcErrorNoMessage == [thrown |-> NULL, error |-> "", result |-> 0]
RpcResult(result) == [thrown |-> NULL, error |-> NULL, result |-> result]

\* results: a uid or false; a template id or none; a composer id or a falsy
\* result; true for message_post and action_send_whatsapp_template
AuthOutcomes == {RpcThrown, RpcError, RpcResult(0), RpcResult(2)}
CreateOutcomes == {RpcThrown, RpcError, RpcErrorNoMessage, RpcResult(1)}
NoteOutcomes == {RpcThrown, RpcError, RpcResult(1)}
TemplateOutcomes == {RpcThrown, RpcError, RpcResult(0), RpcResult(7)}
ComposerOutcomes == {RpcThrown, RpcError, RpcResult(0), RpcResult(9)}
SendOutcomes == {RpcThrown, RpcError, RpcResult(1)}

\* response.data.error.data?.message || text
ErrorMessage(o, text) == IF falsy(o.error) THEN text ELSE o.error

\* `${name.toUpperCase()} ${phone} #IDF2026`
formattedName(name, phone) ==
    toUpperCase(name) \o <<" ">> \o phone
        \o <<" ", "#", "I", "D", "F", "2", "0", "2", "6">>

SessionCachedNever(uid) == FALSE

\* if (odooUid) return odooUid
SessionCached(uid) == uid # 0

\* the request after one more JSON-RPC call has been sent
Called(r, method) == [r EXCEPT !.pc = method, !.calls = Append(@, method)]

\* the catch block of the handler
ContactFailed(p, r, text) ==
    reqs' = [reqs EXCEPT ![p] =
        [r EXCEPT !.pc = "done", !.resp = ErrorResp(500, text)]]

\* res.json({ success: true, contact: {...}, whatsapp_sent })
ContactResp(r, success) ==
    [NoResp EXCEPT !.status = 200,
        !.contact = [odoo_partner_id |-> r.partner,
                     name |-> formattedName(trim(r.contact.name), r.to),
                     phone |-> r.to,
                     city |-> trim(r.contact.city)],
        !.whatsapp_sent = success]

\* sendOdooWhatsApp has returned whatsappResult, the handler answers
ContactAnswered(p, whatsappResult) ==
    reqs' = [reqs EXCEPT ![p] =
        [reqs[p] EXCEPT !.pc = "done",
            !.resp = [ContactResp(reqs[p], whatsappResult.success)
                        EXCEPT !.whatsapp = whatsappResult]]]

\* the handler up to its first await: validation, then createOdooContact,
\* which starts with authenticateOdoo
PostContacts(p) ==
    /\ server = "odoo"
    /\ CanStart(p)
    /\ \E user \in tokens, body \in ContactBodies :
        LET normalizedPhone == normalizeOmanMobile(body.phone)
            started == [reqs[p] EXCEPT !.kind = "contact", !.user = user.id,
                                       !.contact = body]
        IN
        IF trim(body.name) = <<>> \/ trim(body.phone) = <<>>
                \/ trim(body.city) = <<>>
        THEN reqs' = [reqs EXCEPT ![p] =
                [started EXCEPT !.pc = "done",
                    !.resp = ErrorResp(400, "required")]]
        ELSE IF ~isValidOmanMobile(normalizedPhone)
        THEN reqs' = [reqs EXCEPT ![p] =
                [started EXCEPT !.pc = "done",
                    !.resp = ErrorResp(400, "invalid mobile")]]
        ELSE IF SessionCached(odooUid)
        THEN reqs' = [reqs EXCEPT ![p] =
                Called([started EXCEPT !.to = normalizedPhone],
                       "res.partner/create")]
        ELSE IF ~odooConfigured
        THEN ContactFailed(p, started, "Odoo credentials not configured")
        ELSE reqs' = [reqs EXCEPT ![p] =
                Called([started EXCEPT !.to = normalizedPhone],
                       "common/authenticate")]
    /\ UNCHANGED <<calc, erp, server, twilioClient, now, users, tokens, coupons, sends>>

\* authenticateOdoo after its await
PostContactsAuthenticated(p) ==
    /\ reqs[p].pc = "common/authenticate"
    /\ \E o \in AuthOutcomes :
        IF o.thrown # NULL
        THEN ContactFailed(p, reqs[p], o.thrown) /\ UNCHANGED odooUid
        ELSE IF o.error # NULL \/ o.result = 0
        THEN /\ ContactFailed(p, reqs[p], "Odoo authentication failed")
             /\ UNCHANGED odooUid
        ELSE /\ odooUid' = o.result
             /\ reqs' = [reqs EXCEPT ![p] = Called(reqs[p], "res.partner/create")]
    /\ UNCHANGED <<calc, odooConfigured, odooPartners, server, twilioClient, now,
                   users, tokens, coupons, sends>>

\* createOdooContact after its await; then postOdooChatterNote, whose
\* authenticateOdoo returns the cached uid
PostContactsCreated(p) ==
    /\ reqs[p].pc = "res.partner/create"
    /\ \E o \in CreateOutcomes :
        IF o.thrown # NULL
        THEN ContactFailed(p, reqs[p], o.thrown) /\ UNCHANGED odooPartners
        ELSE IF o.error # NULL
        THEN /\ ContactFailed(p, reqs[p], ErrorMessage(o, "Odoo API error"))
             /\ UNCHANGED odooPartners
        ELSE /\ odooPartners' = odooPartners + 1
             /\ reqs' = [reqs EXCEPT ![p] =
                    Called([reqs[p] EXCEPT !.partner = odooPartners + 1],
                           "res.partner/message_post")]
    /\ UNCHANGED <<calc, odooConfigured, odooUid, server, twilioClient, now, users,
                   tokens, coupons, sends>>

\* postOdooChatterNote after its await: it returns the result, or null
\* (0) after an error or a throw, and the handler goes on either way; then
\* sendOdooWhatsApp up to the template lookup
PostContactsNoted(p) ==
    /\ reqs[p].pc = "res.partner/message_post"
    /\ \E o \in NoteOutcomes :
        LET returned == IF o.thrown # NULL \/ o.error # NULL THEN 0
                                                              ELSE o.result
        IN reqs' = [reqs EXCEPT ![p] =
                    Called([reqs[p] EXCEPT !.note = returned],
                           "whatsapp.template/search_read")]
    /\ UNCHANGED <<calc, erp, server, twilioClient, now, users, tokens, coupons, sends>>

\* sendOdooWhatsApp after the template lookup
PostContactsTemplate(p) ==
    /\ reqs[p].pc = "whatsapp.template/search_read"
    /\ \E o \in TemplateOutcomes :
        IF o.thrown # NULL
        THEN ContactAnswered(p, [success |-> FALSE, error |-> o.thrown])
        ELSE IF o.error # NULL
        THEN ContactAnswered(p, [success |-> FALSE,
                error |-> ErrorMessage(o, "Failed to find WhatsApp template")])
        ELSE IF o.result = 0
        THEN ContactAnswered(p, [success |-> FALSE,
                error |-> "WhatsApp template 'idf_2026' not found"])
        ELSE reqs' = [reqs EXCEPT ![p] =
                Called([reqs[p] EXCEPT !.template = o.result],
                       "whatsapp.composer/create")]
    /\ UNCHANGED <<calc, erp, server, twilioClient, now, users, tokens, coupons, sends>>

\* sendOdooWhatsApp after the composer is created: a falsy composer id skips
\* the send and still returns success
PostContactsComposer(p) ==
    /\ reqs[p].pc = "whatsapp.composer/create"
    /\ \E o \in ComposerOutcomes :
        IF o.thrown # NULL
        THEN ContactAnswered(p, [success |-> FALSE, error |-> o.thrown])
        ELSE IF o.error # NULL
        THEN ContactAnswered(p, [success |-> FALSE,
                error |-> ErrorMessage(o, "Failed to create WhatsApp composer")])
        ELSE IF o.result = 0
        THEN ContactAnswered(p, [success |-> TRUE, error |-> UNDEFINED])
        ELSE reqs' = [reqs EXCEPT ![p] =
                Called([reqs[p] EXCEPT !.composer = o.result],
                       "whatsapp.composer/action_send_whatsapp_template")]
    /\ UNCHANGED <<calc, erp, server, twilioClient, now, users, tokens, coupons, sends>>

\* sendOdooWhatsApp after the send
PostContactsSent(p) ==
    /\ reqs[p].pc = "whatsapp.composer/action_send_whatsapp_template"
    /\ \E o \in SendOutcomes :
        IF o.thrown # NULL
        THEN ContactAnswered(p, [success |-> FALSE, error |-> o.thrown])
        ELSE IF o.error # NULL
        THEN ContactAnswered(p, [success |-> FALSE,
                error |-> ErrorMessage(o, "Failed to send WhatsApp")])
        ELSE ContactAnswered(p, [success |-> TRUE, error |-> UNDEFINED])
    /\ UNCHANGED <<calc, erp, server, twilioClient, now, users, tokens, coupons, sends>>

\* ------------------------------------------------------------ phone helpers
\* phone numbers as clients type them: a local number, valid or not, behind
\* at most MaxPrefix international or trunk prefixes
LocalNumbers ==
    { <<"9", "1", "2", "3", "4", "5", "6", "7">>,
      <<"7", "1", "2", "3", "4", "5", "6", "7">>,
      <<"5", "1", "2", "3", "4", "5", "6", "7">>,
      <<"9", "1", "2", "3", "4", "5", "6">>,
      <<"9", "1", "2", "3", "4", "5", "6", "7", "8">>,
      <<"9", "1", "2", "3", "a", "5", "6", "7">>,
      <<"9", "1", "2", "3", " ", "4", "5", "6", "7">>,
      <<"9", "6", "8", "1", "2", "3", "4", "5">>,
      <<"0", "9", "6", "8", "1", "2", "3", "4">>,
      <<>> }

Prefixes == { <<"0">>, <<"0", "0">>, <<"9", "6", "8">>,
              <<"+", "9", "6", "8", " ">> }

RECURSIVE Prefixed(_)
Prefixed(k) ==
    IF k = 0 THEN LocalNumbers
    ELSE Prefixed(k - 1)
            \cup {pf \o x : pf \in Prefixes, x \in Prefixed(k - 1)}

PhoneInputs == Prefixed(MaxPrefix)

\* one more application of normalizeOmanMobile: to the input, then to its
\* own result
NormalizePhone ==
    /\ calc.arg # <<>>
    /\ calc.n < 2
    /\ calc' = IF calc.n = 0
               THEN [calc EXCEPT !.n = 1, !.once = normalizeOmanMobile(calc.arg)]
               ELSE [calc EXCEPT !.n = 2, !.twice = normalizeOmanMobile(calc.once)]
    /\ UNCHANGED <<erp, server, twilioClient, now, users, tokens, coupons,
                   reqs, sends>>

\* isValidOmanMobile applied to the input as a local number, and the checks
\* of POST /api/coupons applied to it as a raw phone
ValidatePhone ==
    /\ calc.arg # <<>>
    /\ ~calc.checked
    /\ calc' = [calc EXCEPT !.checked = TRUE,
                    !.valid = isValidOmanMobile(calc.arg),
                    !.accepted =
                        ValidateCoupon(server, NameAli, calc.arg, "Sohar") = "ok"]
    /\ UNCHANGED <<erp, server, twilioClient, now, users, tokens, coupons,
                   reqs, sends>>

\* ------------------------------------------------------------ specification
\* the coupon endpoints over a store whose writes succeed
Next ==
    \/ Login
    \/ \E p \in Req : PostCoupons(p)
    \/ \E p \in Req : PostCouponsResume(p)
    \/ \E p \in Req : PostResend(p)
    \/ \E p \in Req : PostResendResume(p)

Spec == Init /\ [][Next]_vars

\* the same endpoints over a store whose writes may throw
NextFault ==
    \/ Next
    \/ \E p \in Req : PostCouponsStoreFault(p)
    \/ \E p \in Req : PostCouponsResumeStoreFault(p)

SpecFault == Init /\ [][NextFault]_vars

\* the coupon endpoints together with the other endpoints
NextAll ==
    \/ Next
    \/ \E p \in Req : PostStaff(p)
    \/ \E p \in Req : PatchStaffToggle(p)
    \/ \E p \in Req : PatchStaffPassword(p)
    \/ \E p \in Req : PatchAuthPassword(p)
    \/ \E p \in Req : GetCoupons(p)
    \/ \E p \in Req : GetCouponsExport(p)
    \/ \E p \in Req : GetStats(p)

SpecAll == Init /\ [][NextAll]_vars

\* the issuing routes of both kinds, coupons over a store whose writes can
\* throw and contacts over Odoo
NextErp ==
    \/ NextFault
    \/ \E p \in Req : PostContacts(p)
    \/ \E p \in Req : PostContactsAuthenticated(p)
    \/ \E p \in Req : PostContactsCreated(p)
    \/ \E p \in Req : PostContactsNoted(p)
    \/ \E p \in Req : PostContactsTemplate(p)
    \/ \E p \in Req : PostContactsComposer(p)
    \/ \E p \in Req : PostContactsSent(p)

SpecErp == Init /\ [][NextErp]_vars

\* issuance, the admin-only routes and the middleware in front of every route
NextAuth ==
    \/ Login
    \/ \E p \in Req : PostCoupons(p)
    \/ \E p \in Req : PostCouponsResume(p)
    \/ \E p \in Req : PostStaff(p)
    \/ \E p \in Req : PatchStaffToggle(p)
    \/ \E p \in Req : PatchStaffPassword(p)
    \/ \E p \in Req : GetCouponsExport(p)
    \/ \E p \in Req : GetStaff(p)
    \/ \E p \in Req : RejectUnauthenticated(p)

SpecAuth == Init /\ [][NextAuth]_vars

\* the routes that write table users, issuance, and restarts of the process
NextStaff ==
    \/ Login
    \/ \E p \in Req : PostCoupons(p)
    \/ \E p \in Req : PostCouponsResume(p)
    \/ \E p \in Req : PostStaff(p)
    \/ \E p \in Req : PatchStaffToggle(p)
    \/ \E p \in Req : PatchStaffPassword(p)
    \/ \E p \in Req : PatchAuthPassword(p)
    \/ Restart

SpecStaff == Init /\ [][NextStaff]_vars

\* POST /api/contacts in a process of the Odoo revision that can be
\* restarted; the administrator is logged in
InitSession ==
    /\ calc = NoCalc
    /\ server = "odoo"
    /\ twilioClient = FALSE
    /\ now = Now0
    /\ users = Bootstrap(<<>>)
    /\ tokens = {TokenPayload(DefaultAdmin)}
    /\ coupons = <<>>
    /\ reqs = [p \in Req |-> IdleReq]
    /\ sends = <<>>
    /\ odooConfigured \in BOOLEAN
    /\ odooUid = 0
    /\ odooPartners = 0

NextSession ==
    \/ \E p \in Req : PostContacts(p)
    \/ \E p \in Req : PostContactsAuthenticated(p)
    \/ \E p \in Req : PostContactsCreated(p)
    \/ \E p \in Req : PostContactsNoted(p)
    \/ \E p \in Req : PostContactsTemplate(p)
    \/ \E p \in Req : PostContactsComposer(p)
    \/ \E p \in Req : PostContactsSent(p)
    \/ Restart

SpecSession == InitSession /\ [][NextSession]_vars

\* POST /api/coupons with Twilio configured and the administrator logged in,
\* where every call to Twilio comes back: the continuation of a request that
\* waits for it is run at some time
InitLive ==
    /\ calc = NoCalc
    /\ server \in Servers
    /\ twilioClient = TRUE
    /\ now = Now0
    /\ users = Bootstrap(<<>>)
    /\ tokens = {TokenPayload(DefaultAdmin)}
    /\ coupons = <<>>
    /\ reqs = [p \in Req |-> IdleReq]
    /\ sends = <<>>
    /\ odooConfigured = FALSE
    /\ odooUid = 0
    /\ odooPartners = 0

NextLive ==
    \/ \E p \in Req : PostCoupons(p)
    \/ \E p \in Req : PostCouponsResume(p)

SpecLive ==
    InitLive /\ [][NextLive]_vars
        /\ \A p \in Req : WF_vars(PostCouponsResume(p))

\* the phone helpers over every input of PhoneInputs
InitPhone ==
    /\ calc \in {[NoCalc EXCEPT !.arg = x] : x \in PhoneInputs \ {<<>>}}
    /\ server \in Servers
    /\ twilioClient = FALSE
    /\ now = Now0
    /\ users = Bootstrap(<<>>)
    /\ tokens = {}
    /\ coupons = <<>>
    /\ reqs = [p \in Req |-> IdleReq]
    /\ sends = <<>>
    /\ odooConfigured = FALSE
    /\ odooUid = 0
    /\ odooPartners = 0

NextPhone == NormalizePhone \/ ValidatePhone

SpecPhone == InitPhone /\ [][NextPhone]_vars

\* the read routes over stores of up to MaxRows coupons.  The rows are what
\* issuance and resend leave behind: customers of two branches, issued by
\* two accounts, delivered or not, two of them within one second and one on
\* the next day; ids count up in the order of creation and codes differ
NameZoe == <<"Z", "o", "e">>
PhoneLocal == <<"7", "1", "2", "3", "4", "5", "6", "7">>

StaffSara ==
    [id |-> 2, username |-> "sara", password |-> hashSync(PwNew),
     name |-> "Sara", role |-> "staff", active |-> 1]

StoredRows ==
    { [customer_name |-> NameAli, mobile_number |-> PhoneOk, branch |-> "Sohar",
       staff_id |-> 1, whatsapp_sent |-> 1, whatsapp_error |-> NULL,
       created_at |-> Now0, r |-> <<"0", ".", "k">>],
      [customer_name |-> NameZoe, mobile_number |-> PhoneLocal, branch |-> "Sohar",
       staff_id |-> 2, whatsapp_sent |-> 0, whatsapp_error |-> "Twilio 21211",
       created_at |-> Now0, r |-> <<"0", ".", "a", "1", "z", "q", "7">>],
      [customer_name |-> NameAli, mobile_number |-> PhoneLocal, branch |-> "Nizwa",
       staff_id |-> 2, whatsapp_sent |-> 1, whatsapp_error |-> NULL,
       created_at |-> Now0 + 1, r |-> <<"0", ".", "k">>],
      [customer_name |-> NameZoe, mobile_number |-> PhoneOk, branch |-> "Nizwa",
       staff_id |-> 1, whatsapp_sent |-> 0, whatsapp_error |-> NULL,
       created_at |-> MsPerDay + Now0, r |-> <<"0", ".", "k">>] }

StoredRow(i, row) ==
    [id |-> i,
     customer_name |-> row.customer_name,
     mobile_number |-> row.mobile_number,
     branch |-> row.branch,
     coupon_code |-> generateCouponCode(row.created_at, row.r),
     staff_id |-> row.staff_id,
     whatsapp_sent |-> row.whatsapp_sent,
     whatsapp_error |-> row.whatsapp_error,
     created_at |-> row.created_at]

Stores ==
    UNION { { [i \in 1..n |-> StoredRow(i, f[i])] :
                f \in { g \in [1..n -> StoredRows] :
                        /\ \A i, j \in 1..n : i # j => g[i] # g[j]
                        /\ \A i, j \in 1..n :
                            i < j => g[i].created_at <= g[j].created_at } } :
            n \in 0..MaxRows }

InitRead ==
    /\ calc = NoCalc
    /\ server \in Servers
    /\ twilioClient = FALSE
    /\ now = MsPerDay + Now0
    /\ users = Append(Bootstrap(<<>>), StaffSara)
    /\ tokens = {TokenPayload(DefaultAdmin)}
    /\ coupons \in Stores
    /\ reqs = [p \in Req |-> IdleReq]
    /\ sends = <<>>
    /\ odooConfigured = FALSE
    /\ odooUid = 0
    /\ odooPartners = 0

NextRead ==
    \/ \E p \in Req : GetCoupons(p)
    \/ \E p \in Req : GetCouponsExport(p)
    \/ \E p \in Req : GetStats(p)

SpecRead == InitRead /\ [][NextRead]_vars

\* the coupon and staff routes in a process whose users table holds the
\* default admin, a staff member and a second admin; the two that were
\* created through POST /api/staff are logged in
StaffOmar ==
    [id |-> 3, username |-> "omar", password |-> hashSync(PwNew),
     name |-> "Omar", role |-> "admin", active |-> 1]

InitAccounts ==
    /\ calc = NoCalc
    /\ server \in Servers
    /\ twilioClient \in BOOLEAN
    /\ now = Now0
    /\ users = <<DefaultAdmin, StaffSara, StaffOmar>>
    /\ tokens = {TokenPayload(StaffSara), TokenPayload(StaffOmar)}
    /\ coupons = <<>>
    /\ reqs = [p \in Req |-> IdleReq]
    /\ sends = <<>>
    /\ odooConfigured = FALSE
    /\ odooUid = 0
    /\ odooPartners = 0

NextAccounts ==
    \/ Login
    \/ \E p \in Req : PostCoupons(p)
    \/ \E p \in Req : PostCouponsResume(p)
    \/ \E p \in Req : PostResend(p)
    \/ \E p \in Req : PostResendResume(p)
    \/ \E p \in Req : PostStaff(p)
    \/ \E p \in Req : PatchStaffToggle(p)

SpecAccounts == InitAccounts /\ [][NextAccounts]_vars


\* ------------------------------------------------------------------ claims
IssueReqs == {p \in Req : reqs[p].kind = "issue"}
ResendReqs == {p \in Req : reqs[p].kind = "resend"}

\* the step in which request p sends its response
Answers(p) == reqs[p].pc # "done" /\ reqs'[p].pc = "done"

UpperDigit36Set == {UpperDigits36[i] : i \in 1..36}

\* EXPO-<base-36 timestamp>-<base-36 suffix of at most 4 digits>
IsCouponCode(c) ==
    /\ Len(c) >= 7
    /\ SubSeq(c, 1, 5) = <<"E", "X", "P", "O", "-">>
    /\ \E k \in 7..Len(c) :
        /\ c[k] = "-"
        /\ Len(c) - k <= 4
        /\ \A i \in 6..Len(c) : i # k => c[i] \in UpperDigit36Set

\* C1: in every reachable state of the store no two coupon rows have the
\* same coupon_code, and every stored code has the form
\* EXPO-<base-36 timestamp>-<base-36 random suffix>.
C1_UniqueCodes ==
    /\ \A i, j \in 1..Len(coupons) :
        i # j => coupons[i].coupon_code # coupons[j].coupon_code
    /\ \A i \in 1..Len(coupons) : IsCouponCode(coupons[i].coupon_code)

\* two issuances generated the same code (same millisecond, same random
\* digits): one row is stored, the other INSERT was rejected
C1_Witness ==
    /\ Len(coupons) >= 1
    /\ \E p \in IssueReqs :
        /\ reqs[p].resp.status = 500
        /\ \E i \in 1..Len(coupons) : coupons[i].coupon_code = reqs[p].code

\* C2: once N issuance requests with valid input have all been answered,
\* the store holds N rows with N distinct codes and none of the requests
\* was answered with a failure.
C2_ConcurrentIssuance ==
    LET accepted == {p \in IssueReqs : reqs[p].resp.status # 400}
    IN (\A p \in Req : reqs[p].pc = "done" /\ reqs[p].kind = "issue") =>
        /\ Len(coupons) = Cardinality(accepted)
        /\ Cardinality({coupons[i].coupon_code : i \in 1..Len(coupons)})
                = Cardinality(accepted)
        /\ \A p \in accepted : reqs[p].resp.status = 201

\* C3: an issuance whose INSERT is rejected by the unique constraint on
\* coupon_code is not answered with a failure in that step: it goes on
\* with a fresh code.
C3_RetryOnCollision ==
    [][\A p \in Req :
        (/\ reqs[p].pc = "idle"
         /\ reqs'[p].kind = "issue"
         /\ reqs'[p].code # <<>>
         /\ UniqueViolation(reqs'[p].code))
        => ~(reqs'[p].pc = "done" /\ reqs'[p].resp.status >= 400)]_vars


\* the entries of the log of sendWhatsAppMessage calls made by request p
SendsOf(log, p) == {i \in 1..Len(log) : log[i].req = p}

C7_Resend ==
    /\ [](\A p \in ResendReqs :
            reqs[p].resp.status # 404 =>
                /\ Cardinality(SendsOf(sends, p)) = 1
                /\ \A i \in SendsOf(sends, p) :
                    /\ sends[i].to = coupons[reqs[p].id].mobile_number
                    /\ sends[i].code = coupons[reqs[p].id].coupon_code)
    /\ [][\A p \in Req :
            (Answers(p) /\ reqs'[p].kind = "resend"
                /\ reqs'[p].resp.status # 404)
            => LET row == coupons'[reqs'[p].id]
                   result == reqs'[p].resp.whatsapp
               IN /\ reqs'[p].resp.status = 200
                  /\ row.whatsapp_sent = (IF result.success THEN 1 ELSE 0)
                  /\ result.success => row.whatsapp_error = NULL
                  /\ ~result.success => row.whatsapp_error = result.error]_vars

\* a row that its issuance marked failed is marked sent by a resend
C7_Witness ==
    \E p \in ResendReqs, q \in IssueReqs :
        /\ reqs[p].pc = "done" /\ reqs[q].pc = "done"
        /\ reqs[p].id = reqs[q].id
        /\ ~reqs[q].resp.whatsapp.success
        /\ reqs[p].resp.whatsapp.success
        /\ SendsOf(sends, p) # {}
        /\ coupons[reqs[p].id].whatsapp_sent = 1
        /\ coupons[reqs[p].id].whatsapp_error = NULL

\* C8: a resend for an id that has no row is answered 404 in the step that
\* takes it up, calls sendWhatsAppMessage for nothing and changes no row.
C8_ResendNotFound ==
    [][\A p \in Req :
        (/\ reqs[p].pc = "idle"
         /\ reqs'[p].kind = "resend"
         /\ ~CouponExists(reqs'[p].id))
        => /\ reqs'[p].pc = "done"
           /\ reqs'[p].resp.status = 404
           /\ sends' = sends
           /\ coupons' = coupons]_vars

\* a resend was answered 404 while the store holds rows
C8_Witness ==
    \E p \in ResendReqs :
        /\ reqs[p].resp.status = 404
        /\ reqs[p].id > Len(coupons)
        /\ Len(coupons) >= 1

\* C10: an issuance whose body lacks a customer name, phone or branch, or
\* whose normalized phone is not a valid Omani mobile number, is answered
\* 400 in the step that takes it up; no row is created and
\* sendWhatsAppMessage is not called.
C10_InvalidInputRejected ==
    [][\A p \in Req :
        (/\ reqs[p].pc = "idle"
         /\ reqs'[p].kind = "issue"
         /\ \/ reqs'[p].body.customer_name = <<>>
            \/ reqs'[p].body.mobile_number = <<>>
            \/ falsy(reqs'[p].body.branch)
            \/ ~isValidOmanMobile(normalizeOmanMobile(reqs'[p].body.mobile_number)))
        => /\ reqs'[p].pc = "done"
           /\ reqs'[p].resp.status = 400
           /\ coupons' = coupons
           /\ sends' = sends]_vars


\* C6: when the UPDATE that records the delivery outcome throws after the
\* row was inserted, the request is still answered 201 with the created
\* coupon, and the row is in the store.
C6_StatusUpdateFailureSwallowed ==
    \A p \in IssueReqs :
        (reqs[p].pc = "done" /\ reqs[p].threw = "update")
        => /\ reqs[p].resp.status = 201
           /\ reqs[p].resp.coupon.id = reqs[p].id
           /\ reqs[p].resp.coupon.coupon_code = reqs[p].code
           /\ reqs[p].id \in 1..Len(coupons)
           /\ coupons[reqs[p].id].coupon_code = reqs[p].code

\* C5: an issuance request whose primary write succeeded (the coupon row is
\* inserted, the Odoo contact is created) is answered with a success status
\* and no request-level error, whatever became of the delivery steps
C5_AnsweredSuccessAfterPrimaryWrite ==
    \A p \in Req :
        reqs[p].pc = "done" =>
            /\ (reqs[p].kind = "issue" /\ reqs[p].id # 0) =>
                    (reqs[p].resp.status = 201 /\ reqs[p].resp.error = NULL)
            /\ (reqs[p].kind = "contact" /\ reqs[p].partner # 0) =>
                    (reqs[p].resp.status = 200 /\ reqs[p].resp.error = NULL)

\* C9: a step of any operation keeps every coupon row in place with its id,
\* customer name, phone, branch, coupon code, issuing staff and creation
\* time; whatsapp_sent and whatsapp_error of a row change only in the step in
\* which an issuance or a resend whose target is that row writes the status
OtherKinds == {"list", "export", "stats", "staff", "toggle", "password",
               "own password"}

WritesStatusOf(p, id) ==
    /\ reqs'[p].kind \in {"issue", "resend"}
    /\ reqs'[p].id = id
    /\ reqs[p].pc # "done"
    /\ reqs'[p].pc = "done"

C9_CouponRowsImmutable ==
    [][ /\ Len(coupons') >= Len(coupons)
        /\ \A i \in 1..Len(coupons) :
            /\ coupons'[i].id = coupons[i].id
            /\ coupons'[i].customer_name = coupons[i].customer_name
            /\ coupons'[i].mobile_number = coupons[i].mobile_number
            /\ coupons'[i].branch = coupons[i].branch
            /\ coupons'[i].coupon_code = coupons[i].coupon_code
            /\ coupons'[i].staff_id = coupons[i].staff_id
            /\ coupons'[i].created_at = coupons[i].created_at
            /\ DOMAIN coupons'[i] = DOMAIN coupons[i]
            /\ (\/ coupons'[i].whatsapp_sent # coupons[i].whatsapp_sent
                \/ coupons'[i].whatsapp_error # coupons[i].whatsapp_error)
                => \E p \in Req : WritesStatusOf(p, coupons[i].id)
      ]_vars

\* a row was created, a request of another kind was answered after that, and
\* the row's status has since been written with a successful delivery
C9_Witness ==
    \E p, q \in Req :
        /\ p < q
        /\ reqs[p].kind = "issue" /\ reqs[p].pc = "done" /\ reqs[p].id # 0
        /\ reqs[q].kind \in OtherKinds /\ reqs[q].pc = "done"
        /\ reqs[q].resp.status = 200
        /\ coupons[reqs[p].id].whatsapp_sent = 1
        /\ coupons[reqs[p].id].customer_name = reqs[p].body.customer_name

\* C11: a request that carries no valid bearer token is answered 401 or 403
\* by the middleware, a request to an admin-only route whose token role is
\* not admin is answered 403, and neither changes the tables or calls
\* sendWhatsAppMessage; the tables and the delivery log change only in steps
\* of requests that carry a valid token
TokenRole(id) == (CHOOSE tk \in tokens : tk.id = id).role

StoredUnchanged ==
    /\ users' = users
    /\ coupons' = coupons
    /\ sends' = sends
    /\ tokens' = tokens
    /\ erp' = erp

C11_RejectedWithoutEffect ==
    [][ /\ \A p \in Req :
            (reqs[p].pc = "idle" /\ reqs'[p].pc # "idle") =>
                \/ /\ reqs'[p].user = 0
                   /\ reqs'[p].pc = "done"
                   /\ reqs'[p].resp.status \in {401, 403}
                   /\ StoredUnchanged
                \/ /\ \E tk \in tokens : tk.id = reqs'[p].user
                   /\ (reqs'[p].kind \in AdminRoutes
                        /\ TokenRole(reqs'[p].user) # "admin")
                      => /\ reqs'[p].pc = "done"
                         /\ reqs'[p].resp.status = 403
                         /\ StoredUnchanged
        /\ (users' # users \/ coupons' # coupons \/ sends' # sends)
            => \E p \in Req :
                /\ reqs'[p] # reqs[p]
                /\ \E tk \in tokens : tk.id = reqs'[p].user
                /\ reqs'[p].kind \in {"staff", "toggle", "password"}
                    => TokenRole(reqs'[p].user) = "admin"
      ]_vars

\* a caller with a staff token was refused on an admin-only route
C11_Witness ==
    \E p \in Req :
        /\ reqs[p].pc = "done"
        /\ reqs[p].kind \in AdminRoutes
        /\ reqs[p].user # 0
        /\ users[reqs[p].user].role = "staff"
        /\ reqs[p].resp.status = 403
        /\ Len(users) = 2

\* C12: in every reachable state, after start-up, staff-management requests
\* and restarts, table users holds a row with role admin, start-up would
\* insert nothing, and the default admin is there exactly once
DefaultAdmins ==
    {i \in 1..Len(users) :
        users[i].username = "admin" /\ users[i].name = "Administrator"}

C12_AdminAlwaysExists ==
    /\ \E i \in 1..Len(users) : users[i].role = "admin"
    /\ Bootstrap(users) = users
    /\ Bootstrap(<<>>) = <<DefaultAdmin>>
    /\ Cardinality(DefaultAdmins) = 1
    /\ \A i \in 1..Len(users) : users[i].id = i

\* the process was restarted with a request in flight after a second account
\* was created and an account was deactivated
C12_Witness ==
    /\ \E p \in Req : reqs[p].pc = "aborted"
    /\ \E p \in Req :
        reqs[p].kind \in {"staff", "toggle"} /\ reqs[p].resp.status \in {200, 201}
    /\ \E i \in 1..Len(users) : users[i].active = 0 \/ Len(users) >= 2

\* C13: a toggle request whose target is the caller's own admin account is
\* answered 400 and leaves table users as it was, whichever server runs
C13_NoSelfDeactivation ==
    [][\A p \in Req :
        (/\ reqs[p].pc = "idle"
         /\ reqs'[p].kind = "toggle"
         /\ reqs'[p].id = reqs'[p].user
         /\ reqs'[p].id \in 1..Len(users)
         /\ users[reqs'[p].id].role = "admin")
        => /\ reqs'[p].resp.status = 400
           /\ users' = users]_vars

\* C14: normalizeOmanMobile applied to its own result returns that result
C14_NormalizeIdempotent ==
    calc.n = 2 => calc.twice = calc.once

\* C15: isValidOmanMobile accepts a string exactly when it is 8 decimal
\* digits of which the first is 7 or 9, and POST /api/coupons accepts a raw
\* phone exactly when isValidOmanMobile accepts its normalized form
EightDigitsFrom7Or9(x) ==
    /\ Len(x) = 8
    /\ \A i \in 1..Len(x) : x[i] \in DecimalDigits
    /\ x[1] \in {"7", "9"}

C15_ValidExactly ==
    calc.checked =>
        /\ calc.valid <=> EightDigitsFrom7Or9(calc.arg)
        /\ calc.accepted <=> isValidOmanMobile(normalizeOmanMobile(calc.arg))

\* C16: the total of a listing is the number of rows its criteria match;
\* without criteria that is every row; the rows matched by several criteria
\* are those matched by each of them alone (an absent or empty one matches
\* every row); and a search term without % and _ matches a row exactly when
\* it occurs, letter case aside, in the row's customer name, phone or code
Matched(q) == {i \in 1..Len(coupons) : ListWhere(server, q, coupons[i])}

Occurs(term, str) ==
    \E k \in 0..(Len(str) - Len(term)) :
        \A j \in 1..Len(term) : lowerChar(str[k + j]) = lowerChar(term[j])

ListReqs == {p \in Req : reqs[p].kind = "list" /\ reqs[p].pc = "done"}

ExportReqs ==
    {p \in Req : reqs[p].kind = "export" /\ reqs[p].pc = "done"
                    /\ reqs[p].resp.status = 200}

RowsOf(p) == {reqs[p].resp.data.rows[i] : i \in 1..Len(reqs[p].resp.data.rows)}

C17_SameSelection ==
    \A p \in ListReqs, e \in ExportReqs :
        reqs[p].query = reqs[e].query =>
            /\ RowsOf(e) = Matched(reqs[p].query)
            /\ reqs[p].resp.data.total = Cardinality(RowsOf(e))
            /\ RowsOf(p) \subseteq RowsOf(e)

\* C18: a listing of page p with limit L (50 when not given) over the T rows
\* that match returns the rows at positions (p-1)*L+1 .. min(p*L, T) of an
\* order that is descending in creation time, reports pages = ceil(T/L), and
\* the position ranges of the pages 1..pages hold every position 1..T exactly
\* once
PageAsked(q) == IF q.page = -1 THEN 1 ELSE q.page

LimitAsked(q) == IF q.limit = -1 THEN 50 ELSE q.limit

Positions(pg, L, T) ==
    {k \in 1..T : (pg - 1) * L + 1 <= k /\ k <= pg * L}

PageRows(o, pg, L) ==
    [k \in 1..Cardinality(Positions(pg, L, Len(o))) |-> o[(pg - 1) * L + k]]

StepOrder ==
    <<"common/authenticate", "res.partner/create", "res.partner/message_post",
      "whatsapp.template/search_read", "whatsapp.composer/create",
      "whatsapp.composer/action_send_whatsapp_template">>

StepNo(method) == CHOOSE k \in 1..Len(StepOrder) : StepOrder[k] = method

ContactReqs == {p \in Req : reqs[p].kind = "contact"}

InOrder(calls) ==
    \A i, j \in 1..Len(calls) : i < j => StepNo(calls[i]) < StepNo(calls[j])

Posted(r) ==
    \E i \in 1..Len(r.calls) :
        /\ r.calls[i] = "res.partner/message_post"
        /\ r.pc # "res.partner/message_post"

LastCall(r) == r.calls[Len(r.calls)]

ReportedFailed(r) ==
    \/ r.resp.status = 500 /\ r.resp.error # NULL
    \/ /\ r.resp.status = 200
       /\ ~r.resp.whatsapp_sent
       /\ ~r.resp.whatsapp.success
       /\ r.resp.whatsapp.error # UNDEFINED

C19_FailureStopsLaterSteps ==
    \A p \in ContactReqs :
        LET r == reqs[p]
        IN /\ InOrder(r.calls)
           /\ (Posted(r) /\ r.note = 0) =>
                /\ LastCall(r) = "res.partner/message_post"
                /\ r.pc = "done" /\ ReportedFailed(r)
           /\ (r.pc = "done" /\ r.calls # <<>>) =>
                \/ ReportedFailed(r)
                \/ /\ r.resp.whatsapp_sent
                   /\ LastCall(r) = "whatsapp.composer/action_send_whatsapp_template"

\* C20: the local stats, asked for one day or for all days, give
\* totalCoupons = the number of rows (of that day), whatsappSent = the number
\* of those with whatsapp_sent = 1, whatsappFailed = totalCoupons -
\* whatsappSent, and one entry per branch and one per staff member with the
\* number of their rows, largest count first, the counts of each breakdown
\* adding up to totalCoupons
StatsReqs == {p \in Req : reqs[p].kind = "stats" /\ reqs[p].pc = "done"}

OfDay(q) ==
    {i \in 1..Len(coupons) :
        q.date # -1 => /\ q.date * MsPerDay <= coupons[i].created_at
                       /\ coupons[i].created_at < (q.date + 1) * MsPerDay}

RECURSIVE SumOfCounts(_)
SumOfCounts(g) == IF g = <<>> THEN 0 ELSE Head(g)[2] + SumOfCounts(Tail(g))

Breakdown(g, S, key) ==
    /\ {g[k][1] : k \in 1..Len(g)} = {key[i] : i \in S}
    /\ \A j, k \in 1..Len(g) : j # k => g[j][1] # g[k][1]
    /\ \A k \in 1..Len(g) :
        g[k][2] = Cardinality({i \in S : key[i] = g[k][1]})
    /\ \A j, k \in 1..Len(g) : j < k => g[j][2] >= g[k][2]
    /\ SumOfCounts(g) = Cardinality(S)

C20_LocalStats ==
    \A p \in StatsReqs :
        LET d == reqs[p].resp.data
            S == OfDay(reqs[p].query)
        IN /\ d.total = Cardinality(S)
           /\ d.sent = Cardinality({i \in S : coupons[i].whatsapp_sent = 1})
           /\ d.failed = d.total - d.sent
           /\ Breakdown(d.byBranch, S, [i \in 1..Len(coupons) |-> coupons[i].branch])
           /\ Breakdown(d.byStaff, S, [i \in 1..Len(coupons) |-> coupons[i].staff_id])

\* one answer for a day that leaves a stored row out, with a sent and a
\* failed row, and one answer for all days with unequal counts per branch
C20_Witness ==
    \E p, a \in StatsReqs :
        /\ reqs[p].query.date = 0
        /\ reqs[p].resp.data.total = 2 /\ Len(coupons) = 3
        /\ reqs[p].resp.data.sent = 1 /\ reqs[p].resp.data.failed = 1
        /\ reqs[a].query.date = -1
        /\ reqs[a].resp.data.total = 3
        /\ Len(reqs[a].resp.data.byBranch) = 2
        /\ reqs[a].resp.data.byBranch[1][2] = 2
        /\ reqs[a].resp.data.byBranch[2][2] = 1
        /\ Len(reqs[a].resp.data.byStaff) = 2

\* C21: an error response never carries the message of the exception or of
\* the provider's error that made the handler fail: the error text of every
\* answer with status 500 is one of the fixed messages of the routes
GenericMessages ==
    {"Failed to create coupon", "Failed to create staff member",
     "Failed to create contact", "Internal server error"}

UpstreamTexts == {RpcThrown.thrown, RpcError.error}

C21_NoInternalErrorText ==
    \A p \in Req :
        (reqs[p].pc = "done" /\ reqs[p].resp.status = 500) =>
            /\ reqs[p].resp.error \in GenericMessages
            /\ reqs[p].resp.error \notin UpstreamTexts

\* C22: an issuance inserts its row with whatsapp_sent = 0 and no error in
\* the step in which it calls the provider, the status of a row is written
\* only in the step in which a delivery call for that row returns, and every
\* delivery call is made for the code of a stored row
StatusOf(tbl, id) == <<tbl[id].whatsapp_sent, tbl[id].whatsapp_error>>

C22_InsertSendUpdateOrder ==
    /\ [](\A i \in 1..Len(sends) :
            \E k \in 1..Len(coupons) : coupons[k].coupon_code = sends[i].code)
    /\ [][\A p \in Req :
            (reqs'[p].kind = "issue" /\ reqs[p].pc # "sending"
                /\ reqs'[p].pc = "sending")
            => /\ Len(coupons') = Len(coupons) + 1
               /\ reqs'[p].id = Len(coupons')
               /\ coupons'[reqs'[p].id].coupon_code = reqs'[p].code
               /\ StatusOf(coupons', reqs'[p].id) = <<0, NULL>>
               /\ Len(sends') = Len(sends) + 1
               /\ sends'[Len(sends')].req = p
               /\ sends'[Len(sends')].code = reqs'[p].code]_vars
    /\ [][\A id \in 1..Len(coupons) :
            StatusOf(coupons', id) # StatusOf(coupons, id)
            => \E p \in Req :
                /\ WritesStatusOf(p, id)
                /\ SendsOf(sends', p) # {}
                /\ twilioClient =>
                    (reqs[p].pc = "sending" /\ SendsOf(sends, p) # {})]_vars
    /\ [][\A id \in (Len(coupons) + 1)..Len(coupons') :
            StatusOf(coupons', id) # <<0, NULL>>
            => \E p \in Req :
                /\ ~twilioClient
                /\ WritesStatusOf(p, id)
                /\ SendsOf(sends', p) # {}]_vars

\* the provider has been called for an issuance and has not returned: the
\* row is stored and its status is still unwritten
C22_Witness ==
    \E p \in IssueReqs :
        /\ reqs[p].pc = "sending"
        /\ StatusOf(coupons, reqs[p].id) = <<0, NULL>>
        /\ \E i \in SendsOf(sends, p) :
            sends[i].provider /\ sends[i].code = coupons[reqs[p].id].coupon_code

\* C23: while odooUid holds a uid no request sends common/authenticate and
\* no step changes odooUid except a restart, which clears it; a request whose
\* own authenticate call succeeds goes on with a valid uid in the cache, also
\* when another request authenticated in the meantime, and the cache holds
\* nothing or a valid uid at all times
ValidUids == {o.result : o \in {x \in AuthOutcomes :
                                  x.thrown = NULL /\ x.error = NULL}} \ {0}

Authenticates(p) ==
    /\ reqs'[p].pc = "common/authenticate"
    /\ reqs[p].pc # "common/authenticate"

InFlight(r) == r.pc \notin {"idle", "done", "aborted"}

Waiting(r) == r.pc \notin {"idle", "done", "aborted"}

ActiveAdmins ==
    {i \in 1..Len(users) : users[i].role = "admin" /\ users[i].active = 1}

C25_ActiveAdminRemains == ActiveAdmins # {}

\* C26: a request made with the token of an account that is deactivated
\* changes no table and calls no delivery, and a login never hands a token
\* to a deactivated account
Inactive(id) == \E i \in 1..Len(users) : users[i].id = id /\ users[i].active = 0

C26_DeactivatedAccountInert ==
    [][ /\ \A p \in Req :
            (reqs[p].pc = "idle" /\ reqs'[p].pc # "idle"
                /\ Inactive(reqs'[p].user))
            => /\ users' = users
               /\ coupons' = coupons
               /\ sends' = sends
        /\ \A tk \in tokens' \ tokens : ~Inactive(tk.id) ]_vars

\* C27: the step in which a delivery attempt for a row completes, of the
\* issuance or of a resend, writes that attempt's outcome to the row, and no
\* other step changes the row's status; so when issuance and resends of one
\* row overlap, the row holds the outcome of the attempt that completed last
OutcomeOf(result) ==
    <<IF result.success THEN 1 ELSE 0,
      IF result.success THEN NULL ELSE result.error>>

Completes(p, id) ==
    /\ WritesStatusOf(p, id)
    /\ reqs'[p].resp.status \in {200, 201}

CalledProvider(p) == \E i \in SendsOf(sends, p) : sends[i].provider

C28_SentOnlyAfterProviderCall ==
    /\ \A p \in IssueReqs \cup ResendReqs :
        (reqs[p].pc = "done" /\ reqs[p].resp.whatsapp.success)
            => CalledProvider(p)
    /\ \A i \in 1..Len(coupons) :
        coupons[i].whatsapp_sent = 1 =>
            \E p \in IssueReqs \cup ResendReqs :
                reqs[p].id = coupons[i].id /\ CalledProvider(p)

\* C29: a row marked sent has no error text; a row with whatsapp_sent = 0 and
\* no error text is the row of an issuance whose delivery call has not
\* returned and for which no resend has completed; and a status write sets
\* both fields from one result, so a row that a write marks sent loses the
\* error text it had
AttemptCompleted(id) ==
    \E p \in IssueReqs \cup ResendReqs :
        /\ reqs[p].id = id
        /\ reqs[p].pc = "done"
        /\ reqs[p].resp.status \in {200, 201}

FailedRows(q) ==
    {i \in OfDay(q) : coupons[i].whatsapp_sent = 0
                        /\ coupons[i].whatsapp_error # NULL}

C30_FailedCountsCompletedFailures ==
    [][\A p \in Req :
        (Answers(p) /\ reqs'[p].kind = "stats")
        => reqs'[p].resp.data.failed
                = Cardinality(FailedRows(reqs'[p].query))]_vars

====
